---- MODULE Spec2Model ----
(***************************************************************************)
(* Model of the blackjack round engine of src/src/main.rs: Card, Hand,     *)
(* Player and the App commands reset, hit, stay (with next_hand and end).  *)
(*                                                                         *)
(* A card is modelled by its CardValue; the suit is only ever read by the  *)
(* renderer.  Money (f64, always a multiple of 5.0 here) is an integer.    *)
(* App.exit only ends the event loop and is left out.                      *)
(* Indices are 0-based as in the source; TLA+ sequences are 1-based, so    *)
(* players[i] of the source is players[i + 1] here.                        *)
(***************************************************************************)
EXTENDS Integers, Sequences, FiniteSets, TLC

VARIABLES
    players,            \* App.players : Vec<Player>
    dealer_hand,        \* App.dealer_hand : Hand
    active_hand_index,  \* App.active_hand_index : (usize, usize)
    last_call,          \* the command the latest step ran
    rounds,             \* number of reset() calls so far
    ends,               \* number of end() calls since the latest reset()
    panicked            \* an index was out of bounds (the program aborted)

vars == <<players, dealer_hand, active_hand_index, last_call, rounds, ends, panicked>>

appVars == <<players, dealer_hand, active_hand_index>>

(***************************************************************************)
(* Bounds of the exploration.                                              *)
(***************************************************************************)
MaxPlayers == 2     \* players pushed by initialize in SpecTurn
MaxRounds == 2      \* reset() calls explored
MaxEnds == 2        \* end() calls explored per round
MaxHandCards == 3   \* no hit is followed that makes a hand longer than this
MaxBankRounds == 12 \* reset() calls explored in SpecBank
MaxDeepCards == 20  \* the same limit for the first hand in SpecDeep

(***************************************************************************)
(* Program constants.                                                      *)
(***************************************************************************)
U8 == 256
Ante == 5
StartBank == 100
HandsPerPlayer == 2
DealerLimit == 17
BustLimit == 21

\* The ranks rand::random() can produce (enum CardValue without Hidden).
Ranks ==
    {"Two", "Three", "Four", "Five", "Six", "Seven", "Eight", "Nine", "Ten",
     "Jack", "Queen", "King", "Ace"}

\* The ranks the exploration lets rand::random() produce: PlayerDeck and
\* DealerDeck for the players' and the dealer's cards in Spec, TurnDeck and
\* FullDeck for them in SpecDealer, TurnDeck and DealerDeck in SpecTurn,
\* TurnDeck for all cards in SpecBank, SoftDeck and TurnDeck in SpecSoft;
\* in SpecDeep AceDeck for every card dealt and DeepDeck for the cards hit.
PlayerDeck == {"Six", "Ten"}

DealerDeck == {"Six", "Ten", "Ace"}

FullDeck == {"Six", "Seven", "Ten", "Ace"}

TurnDeck == {"Ten"}

SoftDeck == {"Six", "Ten", "Ace"}

AceDeck == {"Ace"}

DeepDeck == {"Two", "Ten", "Ace"}

(***************************************************************************)
(* Card                                                                    *)
(***************************************************************************)
numerical_value(card) ==
    CASE card = "Two" -> 2
      [] card = "Three" -> 3
      [] card = "Four" -> 4
      [] card = "Five" -> 5
      [] card = "Six" -> 6
      [] card = "Seven" -> 7
      [] card = "Eight" -> 8
      [] card = "Nine" -> 9
      [] card = "Ten" -> 10
      [] card = "Jack" -> 10
      [] card = "Queen" -> 10
      [] card = "King" -> 10
      [] card = "Ace" -> 11
      [] card = "Hidden" -> 0

new_hidden == "Hidden"

(***************************************************************************)
(* Hand                                                                    *)
(***************************************************************************)
NotFinished == <<"NotFinished">>

Stand == <<"Stand">>

HandNew ==
    [contains |-> <<>>, number_of_aces |-> 0, value |-> 0, bet |-> 0,
     outcome |-> NotFinished]

RECURSIVE SumCards(_, _)
SumCards(cards, i) ==
    IF i > Len(cards) THEN 0
    ELSE (numerical_value(cards[i]) + SumCards(cards, i + 1)) % U8

get_value(hand) == SumCards(hand.contains, 1)

get_number_of_aces(hand) ==
    Cardinality({i \in 1..Len(hand.contains) : hand.contains[i] = "Ace"}) % U8

add_card(hand, card) ==
    LET pushed == [hand EXCEPT !.contains = Append(@, card)]
        valued == [pushed EXCEPT !.value = get_value(pushed)]
    IN  [valued EXCEPT !.number_of_aces = get_number_of_aces(valued)]

add_hidden_card(hand) == [hand EXCEPT !.contains = Append(@, new_hidden)]

RECURSIVE ReduceAces(_, _)
ReduceAces(value, aces) ==
    IF value > BustLimit /\ aces > 0 THEN ReduceAces(value - 10, aces - 1)
    ELSE <<value, aces > 0>>

get_real_value(hand) == ReduceAces(hand.value, hand.number_of_aces)

(***************************************************************************)
(* Player                                                                  *)
(***************************************************************************)
PlayerNew == [hands |-> <<>>, name |-> "", bank |-> 0]

HandAt(ps, idx) == ps[idx[1] + 1].hands[idx[2] + 1]

InBounds(ps, idx) ==
    /\ idx[1] < Len(ps)
    /\ idx[2] < Len(ps[idx[1] + 1].hands)

(***************************************************************************)
(* App::initialize: one player, "Nick", with a bank of 100.  initializeN   *)
(* is the same for n players, which the turn logic of next_hand and stay   *)
(* is written for.                                                         *)
(***************************************************************************)
initializeN(n) ==
    [i \in 1..n |->
        IF i = 1 THEN [PlayerNew EXCEPT !.name = "Nick", !.bank = StartBank]
        ELSE [PlayerNew EXCEPT !.bank = StartBank]]

initialize == initializeN(1)

(***************************************************************************)
(* App::reset.  draws[k] is the k-th card produced by rand::random():      *)
(* first one card for every hand (player by player), then, after the       *)
(* dealer's hidden card, a second card for every hand, then the dealer's   *)
(* visible card.                                                           *)
(***************************************************************************)
DealtHandOnce(first, second) ==
    add_card([HandNew EXCEPT !.bet = @ + Ante], first)

DealtHand(first, second) ==
    add_card(add_card([HandNew EXCEPT !.bet = @ + Ante], first), second)

resetPlayersRefuse(ps, draws) ==
    LET n == Len(ps)
        slot(p, h) == (p - 1) * HandsPerPlayer + h
    IN  [p \in 1..n |->
            [ps[p] EXCEPT
                !.hands = [h \in 1..HandsPerPlayer |->
                              DealtHand(draws[slot(p, h)],
                                        draws[n * HandsPerPlayer + slot(p, h)])],
                !.bank = IF @ - HandsPerPlayer * Ante < 0 THEN @
                         ELSE @ - HandsPerPlayer * Ante]]

resetPlayers(ps, draws) ==
    LET n == Len(ps)
        slot(p, h) == (p - 1) * HandsPerPlayer + h
    IN  [p \in 1..n |->
            [ps[p] EXCEPT
                !.hands = [h \in 1..HandsPerPlayer |->
                              DealtHand(draws[slot(p, h)],
                                        draws[n * HandsPerPlayer + slot(p, h)])],
                !.bank = @ - HandsPerPlayer * Ante]]

resetDealerOpen(card) == add_card(add_card(HandNew, card), card)

resetDealer(card) == add_card(add_hidden_card(HandNew), card)

reset(ps, PD, DD) ==
    \E draws \in [1..(2 * HandsPerPlayer * Len(ps)) -> PD], last \in DD :
        /\ active_hand_index' = <<0, 0>>
        /\ players' = resetPlayers(ps, draws)
        /\ dealer_hand' = resetDealer(last)

(***************************************************************************)
(* App::hit                                                                *)
(***************************************************************************)
hitHandUnfinishedOrNot(hand, card) ==
    IF get_real_value(hand)[1] < BustLimit
    THEN add_card(hand, card)
    ELSE hand

hitHandAutoStand(hand, card) ==
    IF hand.outcome = NotFinished /\ get_real_value(hand)[1] < BustLimit
    THEN LET drawn == add_card(hand, card)
         IN  IF get_real_value(drawn)[1] >= BustLimit
             THEN [drawn EXCEPT !.outcome = Stand]
             ELSE drawn
    ELSE hand

hitHandAnyTotal(hand, card) ==
    IF hand.outcome = NotFinished
    THEN add_card(hand, card)
    ELSE hand

hitHand(hand, card) ==
    IF hand.outcome = NotFinished /\ get_real_value(hand)[1] < BustLimit
    THEN add_card(hand, card)
    ELSE hand

hit(D) ==
    \E card \in D :
        LET p == active_hand_index[1] + 1
            h == active_hand_index[2] + 1
        IN  players' = [players EXCEPT ![p].hands[h] = hitHand(@, card)]

(***************************************************************************)
(* App::next_hand.  The two locals are copies of the index; hand_index is  *)
(* left as it is when player_index moves on.                               *)
(***************************************************************************)
next_hand_unguarded(ps, idx) ==
    LET player_index == idx[1]
        hand_index == idx[2]
    IN  IF Len(ps[player_index + 1].hands) - 1 > hand_index
        THEN <<player_index, hand_index + 1>>
        ELSE <<player_index + 1, hand_index>>

next_hand(ps, idx) ==
    LET player_index == idx[1]
        hand_index == idx[2]
    IN  IF Len(ps[player_index + 1].hands) - 1 > hand_index
        THEN <<player_index, hand_index + 1>>
        ELSE IF Len(ps) - 1 > player_index
             THEN <<player_index + 1, hand_index>>
             ELSE <<player_index, hand_index>>

(***************************************************************************)
(* App::end.  The dealer part: flip the hole card (only value is           *)
(* recomputed), then draw while the real value is below 17.  endDealer is  *)
(* the set of dealer hands the random draws can lead to.                   *)
(***************************************************************************)
flipDealerAlways(dealer, card) ==
    LET flipped == [dealer EXCEPT !.contains[1] = card]
    IN  [flipped EXCEPT !.value = get_value(flipped)]

flipDealer(dealer, card) ==
    IF dealer.contains[1] = "Hidden"
    THEN LET flipped == [dealer EXCEPT !.contains[1] = card]
         IN  [flipped EXCEPT !.value = get_value(flipped)]
    ELSE dealer

DealerDrawsInclusive(dealer) == get_real_value(dealer)[1] <= DealerLimit

DealerDrawsSoft(dealer) ==
    \/ get_real_value(dealer)[1] < DealerLimit
    \/ get_real_value(dealer)[1] = DealerLimit /\ get_real_value(dealer)[2]

DealerDraws(dealer) == get_real_value(dealer)[1] < DealerLimit

RECURSIVE drawDealer(_, _)
drawDealer(dealer, D) ==
    IF DealerDraws(dealer)
    THEN UNION {drawDealer(add_card(dealer, card), D) : card \in D}
    ELSE {dealer}

endDealer(dealer, D) ==
    UNION {drawDealer(flipDealer(dealer, card), D) : card \in D}

(***************************************************************************)
(* App::end, the settlement of one hand: the new hand and what is added    *)
(* to the owner's bank.                                                    *)
(***************************************************************************)
resolveDealerFirst(hand, dealer) ==
    LET p == get_real_value(hand)[1]
        d == get_real_value(dealer)[1]
    IN  IF d > BustLimit
        THEN [hand |-> [hand EXCEPT !.outcome = <<"DealerBusts", d, p>>, !.bet = 0],
              pay |-> hand.bet * 2]
        ELSE IF p > BustLimit
        THEN [hand |-> [hand EXCEPT !.outcome = <<"PlayerBusts", d, p>>, !.bet = 0],
              pay |-> 0]
        ELSE IF p < d
        THEN [hand |-> [hand EXCEPT !.outcome = <<"DealerWins", d, p>>, !.bet = 0],
              pay |-> 0]
        ELSE IF p > d
        THEN [hand |-> [hand EXCEPT !.outcome = <<"PlayerWins", d, p>>, !.bet = 0],
              pay |-> hand.bet * 2]
        ELSE [hand |-> [hand EXCEPT !.outcome = <<"Push", d>>, !.bet = 0],
              pay |-> hand.bet]

resolveKeepBet(hand, dealer) ==
    LET p == get_real_value(hand)[1]
        d == get_real_value(dealer)[1]
    IN  IF p > BustLimit
        THEN [hand |-> [hand EXCEPT !.outcome = <<"PlayerBusts", d, p>>, !.bet = 0],
              pay |-> 0]
        ELSE IF d > BustLimit
        THEN [hand |-> [hand EXCEPT !.outcome = <<"DealerBusts", d, p>>],
              pay |-> hand.bet * 2]
        ELSE IF p < d
        THEN [hand |-> [hand EXCEPT !.outcome = <<"DealerWins", d, p>>, !.bet = 0],
              pay |-> 0]
        ELSE IF p > d
        THEN [hand |-> [hand EXCEPT !.outcome = <<"PlayerWins", d, p>>],
              pay |-> hand.bet * 2]
        ELSE [hand |-> [hand EXCEPT !.outcome = <<"Push", d>>],
              pay |-> hand.bet]

resolveRawDealer(hand, dealer) ==
    LET p == get_real_value(hand)[1]
        d == dealer.value
    IN  IF p > BustLimit
        THEN [hand |-> [hand EXCEPT !.outcome = <<"PlayerBusts", d, p>>, !.bet = 0],
              pay |-> 0]
        ELSE IF d > BustLimit
        THEN [hand |-> [hand EXCEPT !.outcome = <<"DealerBusts", d, p>>, !.bet = 0],
              pay |-> hand.bet * 2]
        ELSE IF p < d
        THEN [hand |-> [hand EXCEPT !.outcome = <<"DealerWins", d, p>>, !.bet = 0],
              pay |-> 0]
        ELSE IF p > d
        THEN [hand |-> [hand EXCEPT !.outcome = <<"PlayerWins", d, p>>, !.bet = 0],
              pay |-> hand.bet * 2]
        ELSE [hand |-> [hand EXCEPT !.outcome = <<"Push", d>>, !.bet = 0],
              pay |-> hand.bet]

resolve(hand, dealer) ==
    LET p == get_real_value(hand)[1]
        d == get_real_value(dealer)[1]
    IN  IF p > BustLimit
        THEN [hand |-> [hand EXCEPT !.outcome = <<"PlayerBusts", d, p>>, !.bet = 0],
              pay |-> 0]
        ELSE IF d > BustLimit
        THEN [hand |-> [hand EXCEPT !.outcome = <<"DealerBusts", d, p>>, !.bet = 0],
              pay |-> hand.bet * 2]
        ELSE IF p < d
        THEN [hand |-> [hand EXCEPT !.outcome = <<"DealerWins", d, p>>, !.bet = 0],
              pay |-> 0]
        ELSE IF p > d
        THEN [hand |-> [hand EXCEPT !.outcome = <<"PlayerWins", d, p>>, !.bet = 0],
              pay |-> hand.bet * 2]
        ELSE [hand |-> [hand EXCEPT !.outcome = <<"Push", d>>, !.bet = 0],
              pay |-> hand.bet]

RECURSIVE SumPay(_, _, _)
SumPay(hands, dealer, i) ==
    IF i > Len(hands) THEN 0
    ELSE resolve(hands[i], dealer).pay + SumPay(hands, dealer, i + 1)

settlePlayerFirstHand(player, dealer) ==
    [player EXCEPT
        !.hands = [h \in 1..Len(player.hands) |->
                      IF h = 1 THEN resolve(player.hands[h], dealer).hand
                      ELSE player.hands[h]],
        !.bank = @ + resolve(player.hands[1], dealer).pay]

settlePlayer(player, dealer) ==
    [player EXCEPT
        !.hands = [h \in 1..Len(player.hands) |-> resolve(player.hands[h], dealer).hand],
        !.bank = @ + SumPay(player.hands, dealer, 1)]

endPlayers(ps, dealer) == [p \in 1..Len(ps) |-> settlePlayer(ps[p], dealer)]

(***************************************************************************)
(* App::stay                                                               *)
(***************************************************************************)
standHand(hand) ==
    IF hand.outcome = NotFinished THEN [hand EXCEPT !.outcome = Stand] ELSE hand

finished(ps) ==
    \A p \in 1..Len(ps) : \A h \in 1..Len(ps[p].hands) :
        ps[p].hands[h].outcome # NotFinished

stay(DD) ==
    LET p == active_hand_index[1] + 1
        h == active_hand_index[2] + 1
        stood == [players EXCEPT ![p].hands[h] = standHand(@)]
    IN  /\ active_hand_index' = next_hand(stood, active_hand_index)
        /\ IF finished(stood)
           THEN /\ \E dealer \in endDealer(dealer_hand, DD) :
                      /\ dealer_hand' = dealer
                      /\ players' = endPlayers(stood, dealer)
                /\ ends' = ends + 1
           ELSE /\ players' = stood
                /\ UNCHANGED <<dealer_hand, ends>>

(***************************************************************************)
(* The program: main constructs the App, App::run calls initialize and     *)
(* reset, and then every key event runs one command to completion          *)
(* (handle_key_event).  An index out of bounds aborts the program.         *)
(***************************************************************************)
Init ==
    /\ players = <<>>
    /\ dealer_hand = HandNew
    /\ active_hand_index = <<0, 0>>
    /\ last_call = "new"
    /\ rounds = 0
    /\ ends = 0
    /\ panicked = FALSE

Started == last_call # "new"

run(initialized, PD, DD) ==
    /\ ~Started
    /\ reset(initialized, PD, DD)
    /\ last_call' = "reset"
    /\ rounds' = 1
    /\ ends' = 0
    /\ UNCHANGED panicked

keyHUpTo(PD, limit) ==
    /\ Started /\ ~panicked
    /\ IF InBounds(players, active_hand_index)
       THEN /\ hit(PD)
            /\ Len(HandAt(players', active_hand_index).contains) <= limit
            /\ UNCHANGED panicked
       ELSE /\ panicked' = TRUE
            /\ UNCHANGED players
    /\ last_call' = "hit"
    /\ UNCHANGED <<dealer_hand, active_hand_index, rounds, ends>>

keyH(PD) == keyHUpTo(PD, MaxHandCards)

keyS(DD) ==
    /\ Started /\ ~panicked
    /\ ends < MaxEnds
    /\ IF InBounds(players, active_hand_index)
       THEN /\ stay(DD)
            /\ UNCHANGED panicked
       ELSE /\ panicked' = TRUE
            /\ UNCHANGED <<players, dealer_hand, active_hand_index, ends>>
    /\ last_call' = "stay"
    /\ UNCHANGED rounds

keyRUpTo(PD, DD, limit) ==
    /\ Started /\ ~panicked
    /\ rounds < limit
    /\ reset(players, PD, DD)
    /\ last_call' = "reset"
    /\ rounds' = rounds + 1
    /\ ends' = 0
    /\ UNCHANGED panicked

keyR(PD, DD) == keyRUpTo(PD, DD, MaxRounds)

\* The program as it is: one player.
Run == run(initialize, PlayerDeck, DealerDeck)

KeyHit == keyH(PlayerDeck)

KeyStay == keyS(DealerDeck)

KeyReset == keyR(PlayerDeck, DealerDeck)

Next == Run \/ KeyHit \/ KeyStay \/ KeyReset

Spec == Init /\ [][Next]_vars

\* The program as it is, the dealer's cards drawn from FullDeck.
DealerRun == run(initialize, TurnDeck, FullDeck)

DealerHit == keyH(TurnDeck)

DealerStay == keyS(FullDeck)

DealerReset == keyR(TurnDeck, FullDeck)

DealerNext == DealerRun \/ DealerHit \/ DealerStay \/ DealerReset

SpecDealer == Init /\ [][DealerNext]_vars

\* The program as it is, with few cards and many rounds.
BankRun == run(initialize, TurnDeck, TurnDeck)

BankHit == keyH(TurnDeck)

BankStay == keyS(TurnDeck)

BankReset == keyRUpTo(TurnDeck, TurnDeck, MaxBankRounds)

BankNext == BankRun \/ BankHit \/ BankStay \/ BankReset

SpecBank == Init /\ [][BankNext]_vars

\* The program as it is, the player's cards with aces.
SoftRun == run(initialize, SoftDeck, TurnDeck)

SoftHit == keyH(SoftDeck)

SoftStay == keyS(TurnDeck)

SoftReset == keyR(SoftDeck, TurnDeck)

SoftNext == SoftRun \/ SoftHit \/ SoftStay \/ SoftReset

SpecSoft == Init /\ [][SoftNext]_vars

\* The program as it is, every card dealt an ace and the first hand hit for
\* as long as the program lets it be hit.
DeepRun == run(initialize, AceDeck, AceDeck)

DeepHit ==
    keyHUpTo(DeepDeck,
             IF active_hand_index = <<0, 0>> THEN MaxDeepCards ELSE MaxHandCards)

DeepStay == keyS(AceDeck)

DeepReset == keyR(AceDeck, AceDeck)

DeepNext == DeepRun \/ DeepHit \/ DeepStay \/ DeepReset

SpecDeep == Init /\ [][DeepNext]_vars

\* The turn logic with 1..MaxPlayers players.
TurnRun == \E n \in 1..MaxPlayers : run(initializeN(n), TurnDeck, DealerDeck)

TurnHit == keyH(TurnDeck)

TurnStay == keyS(DealerDeck)

TurnReset == keyR(TurnDeck, DealerDeck)

TurnNext == TurnRun \/ TurnHit \/ TurnStay \/ TurnReset

SpecTurn == Init /\ [][TurnNext]_vars

(***************************************************************************)
(* Reference definitions the properties are stated with: sums, ace counts  *)
(* and ace-reduced totals computed from the cards of a hand.               *)
(***************************************************************************)
RECURSIVE RefSum(_)
RefSum(cards) ==
    IF cards = <<>> THEN 0 ELSE numerical_value(Head(cards)) + RefSum(Tail(cards))

RefAces(cards) == Cardinality({i \in DOMAIN cards : cards[i] = "Ace"})

\* The total with as few aces as possible counted as 1 to stay at or below
\* 21; the total with every ace counted as 1 when even that is above 21.
RefTotal(cards) ==
    LET fits == {k \in 0..RefAces(cards) : RefSum(cards) - 10 * k <= 21}
    IN  IF fits = {} THEN RefSum(cards) - 10 * RefAces(cards)
        ELSE RefSum(cards) - 10 * (CHOOSE k \in fits : \A j \in fits : k <= j)

RefSoft(cards) ==
    \E k \in 0..(RefAces(cards) - 1) : RefTotal(cards) = RefSum(cards) - 10 * k

FinalTags == {"DealerWins", "DealerBusts", "PlayerWins", "PlayerBusts", "Push"}

IsFinal(outcome) == outcome[1] \in FinalTags

Complete == Started /\ finished(players)

StayStep == last_call' = "stay"

EndStep == ends' = ends + 1

(***************************************************************************)
(* C1: stand moves the active index to the next hand of the same player    *)
(* if there is one, otherwise to hand 0 of the next player if there is     *)
(* one, otherwise it leaves the index where it is; with 2 players of 2     *)
(* hands: (0,0) -> (0,1) -> (1,0) -> (1,1).                                *)
(***************************************************************************)
StandTarget(idx) ==
    IF idx[2] + 1 < Len(players[idx[1] + 1].hands) THEN <<idx[1], idx[2] + 1>>
    ELSE IF idx[1] + 1 < Len(players) THEN <<idx[1] + 1, 0>>
    ELSE idx

C1_StandAdvances ==
    [][(StayStep /\ ~panicked')
          => active_hand_index' = StandTarget(active_hand_index)]_vars

(***************************************************************************)
(* C4: issuing stands (hits interleaved) brings the round to Complete, so  *)
(* the round is never in progress in a state that neither a hit nor a      *)
(* stand can change: the active hand finished and the index at rest while  *)
(* some other hand is still NotFinished.                                   *)
(***************************************************************************)
Stuck ==
    /\ ~finished(players)
    /\ HandAt(players, active_hand_index).outcome # NotFinished
    /\ next_hand(players, active_hand_index) = active_hand_index

C4_RoundCompletes == (Started /\ ~panicked) => ~Stuck

(***************************************************************************)
(* C6: once the first reset has run, the active index always names an      *)
(* existing hand of an existing player, also when the round is Complete,   *)
(* and no command indexes out of bounds.                                   *)
(***************************************************************************)
C6_IndexInBounds ==
    Started =>
        /\ ~panicked
        /\ active_hand_index[1] \in 0..(Len(players) - 1)
        /\ active_hand_index[2] \in 0..(Len(players[active_hand_index[1] + 1].hands) - 1)

\* The index has moved on to the second player.
C6_Witness ==
    /\ Len(players) = 2
    /\ active_hand_index[1] = 1
    /\ last_call = "stay"

(***************************************************************************)
(* C2: settlement gives every hand the outcome and the payment of the      *)
(* first matching rule (player bust, dealer bust, dealer wins, player      *)
(* wins, push) for the hand's total p, the dealer's total d and the wager  *)
(* b; the bank changes by the sum of the payments and by nothing else,     *)
(* and no blackjack outcome is ever produced.                              *)
(***************************************************************************)
RuleOutcome(p, d) ==
    IF p > 21 THEN <<"PlayerBusts", d, p>>
    ELSE IF d > 21 THEN <<"DealerBusts", d, p>>
    ELSE IF p < d THEN <<"DealerWins", d, p>>
    ELSE IF p > d THEN <<"PlayerWins", d, p>>
    ELSE <<"Push", d>>

RulePay(p, d, b) ==
    IF p > 21 THEN 0
    ELSE IF d > 21 THEN 2 * b
    ELSE IF p < d THEN 0
    ELSE IF p > d THEN 2 * b
    ELSE b

RECURSIVE RulePaySum(_, _)
RulePaySum(hands, d) ==
    IF hands = <<>> THEN 0
    ELSE RulePay(RefTotal(Head(hands).contains), d, Head(hands).bet)
            + RulePaySum(Tail(hands), d)

C2_Settlement ==
    [][/\ EndStep =>
            \A p \in DOMAIN players :
                LET d == RefTotal(dealer_hand'.contains)
                IN  /\ \A h \in DOMAIN players[p].hands :
                          players'[p].hands[h].outcome =
                              RuleOutcome(RefTotal(players[p].hands[h].contains), d)
                    /\ players'[p].bank = players[p].bank + RulePaySum(players[p].hands, d)
       /\ \A p \in DOMAIN players' : \A h \in DOMAIN players'[p].hands :
              players'[p].hands[h].outcome[1] \notin {"DealerBlackjack", "PlayerBlackjack"}
      ]_vars

\* Settled with both the first hand and the dealer bust, the second hand paid.
C2_Witness ==
    /\ ends = 1
    /\ players[1].hands[1].outcome[1] = "PlayerBusts"
    /\ players[1].hands[1].outcome[2] > 21
    /\ players[1].hands[2].outcome[1] = "DealerBusts"
    /\ players[1].bank = StartBank

(***************************************************************************)
(* C3: after every reset each player has 2 hands, each hand has the given  *)
(* number of visible cards, bet 5 and outcome NotFinished, the dealer has  *)
(* a hidden card followed by a visible one, and the active index is (0,0). *)
(* The claim says one card per hand; the code deals two.                   *)
(***************************************************************************)
ResetShape(n) ==
    /\ active_hand_index = <<0, 0>>
    /\ \A p \in DOMAIN players :
          /\ Len(players[p].hands) = 2
          /\ \A h \in DOMAIN players[p].hands :
                LET hand == players[p].hands[h]
                IN  /\ Len(hand.contains) = n
                    /\ \A i \in DOMAIN hand.contains : hand.contains[i] \in Ranks
                    /\ hand.bet = 5
                    /\ hand.outcome = NotFinished
    /\ Len(dealer_hand.contains) = 2
    /\ dealer_hand.contains[1] = "Hidden"
    /\ dealer_hand.contains[2] \in Ranks

C3_ResetOneCard == last_call = "reset" => ResetShape(1)

C3_ResetTwoCards == last_call = "reset" => ResetShape(2)

\* A reset that followed a settled round which paid something.
C3_Witness ==
    /\ last_call = "reset"
    /\ rounds = 2
    /\ players[1].bank > StartBank - 20

(***************************************************************************)
(* C5: between two resets settlement runs once, so end() is not called a   *)
(* second time (original claim).  As amended: every stand issued in a      *)
(* Complete round runs end() again over all hands, but a hand with a final *)
(* tag keeps its tag, cards and bet 0 and the bank is not changed; a Stand *)
(* hand only becomes final in a settlement, and a NotFinished hand only    *)
(* becomes Stand, or final in the settlement its own stand triggers.       *)
(***************************************************************************)
C5_SettledOnce == ends <= 1

C5_Lifecycle ==
    [][last_call' # "reset" =>
          \A p \in DOMAIN players :
              /\ \A h \in DOMAIN players[p].hands :
                    LET old == players[p].hands[h]
                        new == players'[p].hands[h]
                    IN  /\ IsFinal(old.outcome) =>
                              /\ new = old
                              /\ old.bet = 0
                              /\ players'[p].bank = players[p].bank
                        /\ old.outcome = Stand =>
                              \/ new.outcome = Stand
                              \/ EndStep /\ IsFinal(new.outcome)
                        /\ old.outcome = NotFinished =>
                              \/ new.outcome \in {NotFinished, Stand}
                              \/ /\ EndStep /\ IsFinal(new.outcome)
                                 /\ active_hand_index = <<p - 1, h - 1>>
                        /\ EndStep => IsFinal(new.outcome)
      ]_vars

\* Settlement has run a second time in the same round.
C5_Witness ==
    /\ ends = 2
    /\ \A h \in DOMAIN players[1].hands : IsFinal(players[1].hands[h].outcome)
    /\ players[1].bank > StartBank - 10

(***************************************************************************)
(* C7: a hit on an active hand that is not NotFinished, or whose total is  *)
(* 21 or more, changes no card, bet, bank, outcome or index.               *)
(***************************************************************************)
IdleHand(hand) == hand.outcome # NotFinished \/ RefTotal(hand.contains) >= 21

C7_IdleHit ==
    [][(last_call' = "hit" /\ ~panicked'
            /\ IdleHand(HandAt(players, active_hand_index)))
          => UNCHANGED appVars]_vars

\* A hit was issued on a settled hand, and on a hand that had been bust.
C7_Witness ==
    /\ last_call = "hit"
    /\ IsFinal(HandAt(players, active_hand_index).outcome)
    /\ HandAt(players, active_hand_index).outcome[1] = "PlayerBusts"

(***************************************************************************)
(* C8: in a Complete round the dealer's total is between 17 and 26, and    *)
(* every card after the first two was drawn on a total below 17; so a      *)
(* dealer whose first two cards total 17 or more has drawn nothing.        *)
(***************************************************************************)
C8_DealerPolicy ==
    Complete =>
        LET cards == dealer_hand.contains
        IN  /\ Len(cards) >= 2
            /\ \A i \in DOMAIN cards : cards[i] \in Ranks
            /\ RefTotal(cards) >= 17
            /\ RefTotal(cards) <= 26
            /\ \A k \in 2..(Len(cards) - 1) : RefTotal(SubSeq(cards, 1, k)) < 17
            /\ RefTotal(SubSeq(cards, 1, 2)) >= 17 => Len(cards) = 2

\* The dealer drew on 16 and went to 26.
C8_Witness ==
    /\ Complete
    /\ Len(dealer_hand.contains) = 3
    /\ RefTotal(SubSeq(dealer_hand.contains, 1, 2)) = 16
    /\ RefTotal(dealer_hand.contains) = 26

(***************************************************************************)
(* C9: a dealer whose two cards after the reveal are a soft 17 (Ace and    *)
(* Six) draws at least one more card (original claim); in the code such a  *)
(* dealer stands, the hand stays at two cards.                             *)
(***************************************************************************)
SoftSeventeen(cards) ==
    /\ Len(cards) >= 2
    /\ RefTotal(SubSeq(cards, 1, 2)) = 17
    /\ RefSoft(SubSeq(cards, 1, 2))

C9_SoftSeventeenDraws ==
    (Complete /\ SoftSeventeen(dealer_hand.contains)) => Len(dealer_hand.contains) >= 3

C9_SoftSeventeenStands ==
    (Complete /\ SoftSeventeen(dealer_hand.contains)) => Len(dealer_hand.contains) = 2

\* The hole card was a Six under a visible Ace.
C9_Witness ==
    /\ Complete
    /\ dealer_hand.contains = <<"Six", "Ace">>

(***************************************************************************)
(* C10: for every player hand and for the dealer hand the cached value is  *)
(* the sum of the cards' numerical values and the cached ace count is the  *)
(* number of Ace cards, also after the hole card is revealed.              *)
(***************************************************************************)
CacheFresh(hand) ==
    /\ hand.value = RefSum(hand.contains)
    /\ hand.number_of_aces = RefAces(hand.contains)

C10_CacheFresh ==
    /\ CacheFresh(dealer_hand)
    /\ \A p \in DOMAIN players : \A h \in DOMAIN players[p].hands :
          CacheFresh(players[p].hands[h])

(***************************************************************************)
(* C11: for every player hand and for the dealer hand, before and after    *)
(* the reveal, get_real_value returns the ace-reduced total of the hand's  *)
(* cards and soft exactly when an Ace of the hand still counts as 11.      *)
(***************************************************************************)
RealValueRight(hand) ==
    get_real_value(hand) = <<RefTotal(hand.contains), RefSoft(hand.contains)>>

C11_RealValue ==
    /\ RealValueRight(dealer_hand)
    /\ \A p \in DOMAIN players : \A h \in DOMAIN players[p].hands :
          RealValueRight(players[p].hands[h])

(***************************************************************************)
(* C12: while some hand is NotFinished the dealer holds exactly two cards, *)
(* the first Hidden and counting 0, so that the cached value is the value  *)
(* of the visible card; a revealed hole card means end() has run since the *)
(* latest reset.                                                           *)
(***************************************************************************)
C12_HoleCardHidden ==
    Started =>
        /\ ~finished(players) =>
              /\ Len(dealer_hand.contains) = 2
              /\ dealer_hand.contains[1] = "Hidden"
              /\ dealer_hand.contains[2] \in Ranks
              /\ dealer_hand.value = numerical_value(dealer_hand.contains[2])
        /\ dealer_hand.contains[1] # "Hidden" => ends >= 1

\* In progress after a hit on the first hand and a stand that did not end
\* the round.
C12_Witness ==
    /\ Started /\ ~finished(players)
    /\ last_call = "stay"
    /\ Len(players[1].hands[1].contains) = 3
    /\ players[1].hands[1].outcome = Stand
    /\ dealer_hand.contains[1] = "Hidden"

(***************************************************************************)
(* C13: every reset takes exactly 10 from each player's bank, whatever the *)
(* balance (also below zero) and whatever bets the discarded hands still   *)
(* hold, and gives each of the two new hands a bet of exactly 5.           *)
(***************************************************************************)
C13_ResetAnte ==
    [][last_call' = "reset" =>
          \A p \in DOMAIN players' :
              /\ players'[p].bank = (IF Started THEN players[p].bank ELSE 100) - 10
              /\ Len(players'[p].hands) = 2
              /\ \A h \in DOMAIN players'[p].hands : players'[p].hands[h].bet = 5
      ]_vars

\* A reset has taken the bank below zero.
C13_Witness ==
    /\ last_call = "reset"
    /\ players[1].bank < 0
    /\ \A h \in DOMAIN players[1].hands : players[1].hands[h].bet = 5

(***************************************************************************)
(* C14: between commands the round has one of two shapes: in progress      *)
(* (some hand NotFinished, every outcome NotFinished or Stand, every bet   *)
(* 5, hole card hidden) or settled (every hand with a final tag and bet 0, *)
(* hole card revealed).                                                    *)
(***************************************************************************)
ShapeInProgress ==
    /\ \E p \in DOMAIN players : \E h \in DOMAIN players[p].hands :
          players[p].hands[h].outcome = NotFinished
    /\ \A p \in DOMAIN players : \A h \in DOMAIN players[p].hands :
          /\ players[p].hands[h].outcome \in {NotFinished, Stand}
          /\ players[p].hands[h].bet = 5
    /\ dealer_hand.contains[1] = "Hidden"

ShapeSettled ==
    /\ \A p \in DOMAIN players : \A h \in DOMAIN players[p].hands :
          /\ IsFinal(players[p].hands[h].outcome)
          /\ players[p].hands[h].bet = 0
    /\ dealer_hand.contains[1] \in Ranks

C14_TwoShapes ==
    Started => /\ ShapeInProgress \/ ShapeSettled
               /\ ~(ShapeInProgress /\ ShapeSettled)

\* Settled with a won first hand and a lost second hand.
C14_Witness ==
    /\ Started
    /\ ShapeSettled
    /\ last_call = "stay"
    /\ players[1].hands[1].outcome[1] = "PlayerWins"
    /\ players[1].hands[2].outcome[1] = "DealerWins"

(***************************************************************************)
(* C15: a hit appends exactly one card to the active hand when that hand   *)
(* is NotFinished with a total below 21, and no card otherwise; it never   *)
(* changes the active index, an outcome, a bet, a bank, the dealer hand or *)
(* another hand, and it never settles the round, also when it takes the    *)
(* hand to 21 or beyond.                                                   *)
(***************************************************************************)
C15_HitFrame ==
    [][(last_call' = "hit" /\ ~panicked') =>
          LET idx == active_hand_index
              old == HandAt(players, idx)
              new == HandAt(players', idx)
          IN  /\ active_hand_index' = idx
              /\ dealer_hand' = dealer_hand
              /\ ends' = ends
              /\ \A p \in DOMAIN players :
                    /\ players'[p].bank = players[p].bank
                    /\ \A h \in DOMAIN players[p].hands :
                          /\ players'[p].hands[h].outcome = players[p].hands[h].outcome
                          /\ players'[p].hands[h].bet = players[p].hands[h].bet
                          /\ <<p - 1, h - 1>> # idx =>
                                players'[p].hands[h] = players[p].hands[h]
              /\ IF old.outcome = NotFinished /\ RefTotal(old.contains) < 21
                 THEN \E card \in Ranks : new.contains = Append(old.contains, card)
                 ELSE new.contains = old.contains
      ]_vars

\* A hit has taken the first hand to 21, and the turn is still on it.
C15_Witness ==
    /\ last_call = "hit"
    /\ active_hand_index = <<0, 0>>
    /\ Len(players[1].hands[1].contains) = 3
    /\ RefTotal(players[1].hands[1].contains) = 21
    /\ players[1].hands[1].outcome = NotFinished

(***************************************************************************)
(* C16: once the round is Complete, a hit or a stand changes no bank, no   *)
(* hand (cards, bet, outcome tag), no dealer card and not the active       *)
(* index: settlement run again pays nothing and draws nothing.             *)
(***************************************************************************)
C16_CompleteFrozen ==
    [][(Complete /\ last_call' \in {"hit", "stay"} /\ ~panicked') =>
          /\ players' = players
          /\ dealer_hand' = dealer_hand
          /\ active_hand_index' = active_hand_index
      ]_vars

\* A second settlement after the dealer had drawn and a hand had been paid.
C16_Witness ==
    /\ Complete
    /\ ends = 2
    /\ last_call = "stay"
    /\ Len(dealer_hand.contains) >= 3
    /\ players[1].hands[1].outcome[1] \in {"PlayerWins", "DealerBusts", "Push"}

(***************************************************************************)
(* C17: the dealer total that settlement uses, and that it writes into the *)
(* outcome tags, is the ace-reduced total of the dealer's actual cards;    *)
(* the dealer is never settled as bust when the cards admit a total of 21  *)
(* or less.                                                                *)
(***************************************************************************)
C17_DealerTotal ==
    Complete =>
        LET total == RefTotal(dealer_hand.contains)
        IN  /\ get_real_value(dealer_hand)[1] = total
            /\ \A p \in DOMAIN players : \A h \in DOMAIN players[p].hands :
                  LET tag == players[p].hands[h].outcome
                  IN  /\ tag[2] = total
                      /\ tag[1] = "DealerBusts" => total > BustLimit

\* Settled with a revealed ace in the hole, the case of the stale ace count.
C17_Witness ==
    /\ Complete
    /\ dealer_hand.contains[1] = "Ace"
    /\ dealer_hand.number_of_aces # RefAces(dealer_hand.contains)
    /\ players[1].hands[1].outcome = <<"PlayerWins", 17, 20>>

(***************************************************************************)
(* C18: the raw cached value of every hand, of a player or of the dealer,  *)
(* is the plain sum of its cards (ace 11) and never exceeds 255, so the    *)
(* sum in get_value does not wrap and the subtraction of 10 per ace in     *)
(* get_real_value does not go below 0; the real value of a player's hand   *)
(* never exceeds 30.                                                       *)
(***************************************************************************)
ValueInRange(hand) ==
    /\ RefSum(hand.contains) <= U8 - 1
    /\ hand.value = RefSum(hand.contains)
    /\ get_real_value(hand)[1] \in 0..(U8 - 1)
    /\ hand.value - get_real_value(hand)[1] <= 10 * hand.number_of_aces

C18_ValueInRange ==
    /\ ValueInRange(dealer_hand)
    /\ \A p \in DOMAIN players : \A h \in DOMAIN players[p].hands :
          /\ ValueInRange(players[p].hands[h])
          /\ get_real_value(players[p].hands[h])[1] <= 30

\* The longest hand the program allows: a two and nineteen aces, raw 211.
C18_Witness ==
    /\ Started
    /\ Len(players[1].hands[1].contains) = MaxDeepCards
    /\ RefAces(players[1].hands[1].contains) = MaxDeepCards - 1
    /\ players[1].hands[1].value > 200
    /\ get_real_value(dealer_hand)[1] >= DealerLimit

====
